---------------------------- MODULE Spec2Model ----------------------------
(***************************************************************************)
(* Model of the template engine of ruty-commands (src/template-engine):    *)
(* the line classifier and tag parser (parser.rs), the HTML generator      *)
(* (generator.rs) and the line loop of main (main.rs).                     *)
(*                                                                         *)
(* A Rust String is modelled as a sequence of one-character strings, so    *)
(* that the substring operations of the code (contains, matches, find,     *)
(* split, trim, replace, ends_with, slicing) are computed as the standard  *)
(* library computes them.  All text is ASCII, so byte offsets are          *)
(* character offsets; offsets are 0-based as in the source.                *)
(***************************************************************************)
EXTENDS Integers, Sequences, FiniteSets, TLC

(***************************************************************************)
(* Text primitives of the Rust standard library used by the code.          *)
(***************************************************************************)

\* char::is_whitespace, restricted to the characters of the model
is_whitespace(c) == c \in {" ", "\t", "\n"}

\* the pattern pat occurs in s at 0-based offset i
matches_at(s, pat, i) ==
    /\ i >= 0
    /\ i + Len(pat) <= Len(s)
    /\ SubSeq(s, i + 1, i + Len(pat)) = pat

\* the 0-based offsets at which pat occurs in s
occurrences(s, pat) == {i \in 0..(Len(s) - Len(pat)) : matches_at(s, pat, i)}

\* str::contains
str_contains(s, pat) == occurrences(s, pat) /= {}

\* str::find: 0-based offset of the first occurrence; None is modelled as -1
str_find(s, pat) ==
    IF occurrences(s, pat) = {} THEN -1
    ELSE CHOOSE i \in occurrences(s, pat) : \A j \in occurrences(s, pat) : i <= j

\* str::ends_with
str_ends_with(s, pat) == matches_at(s, pat, Len(s) - Len(pat))

\* &s[from..to] with 0-based, end-exclusive offsets (defined for from <= to <= len)
slice(s, from, to) == SubSeq(s, from + 1, to)

\* the slice &s[from..to] is in range; otherwise the code panics
slice_ok(s, from, to) == 0 <= from /\ from <= to /\ to <= Len(s)

\* str::matches(pat).count(): non-overlapping occurrences, scanned left to right
RECURSIVE count_from(_, _, _)
count_from(s, pat, i) ==
    IF i + Len(pat) > Len(s) THEN 0
    ELSE IF matches_at(s, pat, i) THEN 1 + count_from(s, pat, i + Len(pat))
    ELSE count_from(s, pat, i + 1)

str_matches_count(s, pat) == count_from(s, pat, 0)

\* str::split(pat): the pieces between non-overlapping occurrences of pat
RECURSIVE split_from(_, _, _, _)
split_from(s, pat, start, i) ==
    IF i + Len(pat) > Len(s) THEN << slice(s, start, Len(s)) >>
    ELSE IF matches_at(s, pat, i)
         THEN << slice(s, start, i) >> \o split_from(s, pat, i + Len(pat), i + Len(pat))
    ELSE split_from(s, pat, start, i + 1)

str_split(s, pat) == split_from(s, pat, 0, 0)

\* str::replace(from, to): every non-overlapping occurrence, left to right
RECURSIVE replace_from(_, _, _, _)
replace_from(s, from, to, i) ==
    IF i >= Len(s) THEN << >>
    ELSE IF matches_at(s, from, i) THEN to \o replace_from(s, from, to, i + Len(from))
    ELSE << s[i + 1] >> \o replace_from(s, from, to, i + 1)

\* str::replacen(from, to, 1) in the place of str::replace: the first occurrence only
str_replace_first(s, from, to) ==
    LET i == str_find(s, from)
    IN  IF i = -1 THEN s
        ELSE slice(s, 0, i) \o to \o slice(s, i + Len(from), Len(s))

str_replace(s, from, to) == replace_from(s, from, to, 0)

\* str::trim: leading and trailing whitespace removed
RECURSIVE trim_start(_)
trim_start(s) ==
    IF s /= << >> /\ is_whitespace(Head(s)) THEN trim_start(Tail(s)) ELSE s

RECURSIVE trim_end(_)
trim_end(s) ==
    IF s /= << >> /\ is_whitespace(s[Len(s)])
    THEN trim_end(SubSeq(s, 1, Len(s) - 1)) ELSE s

str_trim(s) == trim_end(trim_start(s))

\* str::split_whitespace: the maximal runs of non-whitespace characters
RECURSIVE words_from(_, _, _)
words_from(s, start, i) ==
    IF i >= Len(s)
    THEN IF start < i THEN << slice(s, start, i) >> ELSE << >>
    ELSE IF is_whitespace(s[i + 1])
         THEN (IF start < i THEN << slice(s, start, i) >> ELSE << >>)
              \o words_from(s, i + 1, i + 1)
    ELSE words_from(s, start, i + 1)

str_split_whitespace(s) == words_from(s, 0, 0)

(***************************************************************************)
(* String literals of the source, as character sequences.                  *)
(***************************************************************************)

\* "{%"
TagOpen == << "{", "%" >>

\* "%}"
TagClose == << "%", "}" >>

\* "{{"
VarOpen == << "{", "{" >>

\* "}}"
VarClose == << "}", "}" >>

\* "for"
KwFor == << "f", "o", "r" >>

\* "in"
KwIn == << "i", "n" >>

\* "endfor"
KwEndfor == << "e", "n", "d", "f", "o", "r" >>

\* "if"
KwIf == << "i", "f" >>

\* "endif"
KwEndif == << "e", "n", "d", "i", "f" >>

\* "{% endif %}"
EndifTag == << "{", "%", " ", "e", "n", "d", "i", "f", " ", "%", "}" >>

\* "{% endfor %}"
EndforTag == << "{", "%", " ", "e", "n", "d", "f", "o", "r", " ", "%", "}" >>

\* "{% if "
IfPrefix == << "{", "%", " ", "i", "f", " " >>

\* "{% for "
ForPrefix == << "{", "%", " ", "f", "o", "r", " " >>

\* " %}"
CondClose == << " ", "%", "}" >>

\* "Unrecognized operator"
UnrecognizedOperator == << "U", "n", "r", "e", "c", "o", "g", "n", "i", "z", "e", "d", " ", "o", "p", "e", "r", "a", "t", "o", "r" >>

\* "Unrecognized input"
UnrecognizedInput == << "U", "n", "r", "e", "c", "o", "g", "n", "i", "z", "e", "d", " ", "i", "n", "p", "u", "t" >>

\* the operators array of get_conditional_expression: [">", ">=", "=", "<=", "<", "in"]
operators == << << ">" >>, << ">", "=" >>, << "=" >>, << "<", "=" >>, << "<" >>, << "i", "n" >> >>

(***************************************************************************)
(* parser.rs: the content of a line.                                       *)
(*   ContentType    Literal(text) | TemplateVariable(data) | Tag(tag, data) *)
(*                  | Unrecognized                                          *)
(*   ExpressionData [expression, var_map, gen_html]                         *)
(*   Conditional    [condition, expression]                                 *)
(*   ConditionData  [left_operand, operation, right_operand]                *)
(*   OperationType  Equal | In | Nosoported(msg)                            *)
(* A call that panics (expect/unwrap on a missing value, a slice or an      *)
(* index out of range) yields the value Panic: the process aborts there.    *)
(***************************************************************************)

Literal(text) == [type |-> "Literal", text |-> text]

TemplateVariable(data) == [type |-> "TemplateVariable", data |-> data]

Tag(tag, conditional) == [type |-> "Tag", tag |-> tag, data |-> conditional]

Unrecognized == [type |-> "Unrecognized"]

Panic == [type |-> "Panic"]

Equal == [op |-> "Equal"]

In == [op |-> "In"]

Nosoported(msg) == [op |-> "Nosoported", msg |-> msg]

Ok(v) == [res |-> "Ok", val |-> v]

Err(e) == [res |-> "Err", err |-> e]

\* the unwinding of a panic through a function that returns a Result
Panicked == [res |-> "Panic"]

\* fn check_symbol_string
check_symbol_string(input, pattern) == str_contains(input, pattern)

\* check_matching_pair without the test that the count is not 0
check_matching_pair_any_count(input, left_part, right_pat) ==
    str_matches_count(input, left_part) = str_matches_count(input, right_pat)

\* check_matching_pair without the test that the two counts are equal
check_matching_pair_unbalanced(input, left_part, right_pat) ==
    str_matches_count(input, left_part) /= 0 \/ str_matches_count(input, right_pat) /= 0

\* fn check_matching_pair
check_matching_pair(input, left_part, right_pat) ==
    LET count_left_pattern  == str_matches_count(input, left_part)
        count_right_pattern == str_matches_count(input, right_pat)
    IN  count_left_pattern = count_right_pattern /\ count_left_pattern /= 0

\* fn get_index_for_symbol: Option<usize>, None is -1
get_index_for_symbol(input, symbol) == str_find(input, << symbol >>)

\* get_expression_data without the test for "}}": a word with "{{" qualifies
get_expression_data_open_only(input) ==
    [expression |-> input,
     var_map    |-> SelectSeq(str_split_whitespace(input),
                              LAMBDA word : check_symbol_string(word, VarOpen)),
     gen_html   |-> << >>]

\* fn get_expression_data
get_expression_data(input) ==
    [expression |-> input,
     var_map    |-> SelectSeq(str_split_whitespace(input),
                              LAMBDA word : /\ check_symbol_string(word, VarOpen)
                                            /\ check_symbol_string(word, VarClose)),
     gen_html   |-> << >>]

\* get_operation_type with the operator itself as the message of Nosoported
get_operation_type_echo(input) ==
    IF input = << "=" >> THEN Equal
    ELSE IF input = << "i", "n" >> THEN In
    ELSE Nosoported(input)

\* fn get_operation_type
get_operation_type(input) ==
    IF input = << "=" >> THEN Equal
    ELSE IF input = << "i", "n" >> THEN In
    ELSE Nosoported(UnrecognizedOperator)

\* get_conditional_expression with continue in place of break: an operator
\* that does not split the input in two is passed over for a later one
get_conditional_expression_fallback(raw) ==
    LET input == str_trim(raw)
        found == {k \in DOMAIN operators :
                      /\ str_contains(input, operators[k])
                      /\ Len(str_split(input, operators[k])) = 2}
    IN  IF found = {} THEN Err("Invalid format")
        ELSE LET k        == CHOOSE x \in found : \A y \in found : x <= y
                 operator == operators[k]
                 operants == str_split(input, operator)
             IN  Ok([left_operand  |-> str_trim(operants[1]),
                     operation     |-> get_operation_type(operator),
                     right_operand |-> str_trim(operants[2])])

\* fn get_conditional_expression: the first operator of the array, in array
\* order, that the trimmed input contains decides; a split into other than two
\* parts leaves the loop (break) and the function fails
get_conditional_expression(raw) ==
    LET input == str_trim(raw)
        found == {k \in DOMAIN operators : str_contains(input, operators[k])}
    IN  IF found = {} THEN Err("Invalid format")
        ELSE LET k        == CHOOSE x \in found : \A y \in found : x <= y
                 operator == operators[k]
                 operants == str_split(input, operator)
             IN  IF Len(operants) /= 2 THEN Err("Invalid format")
                 ELSE Ok([left_operand  |-> str_trim(operants[1]),
                          operation     |-> get_operation_type(operator),
                          right_operand |-> str_trim(operants[2])])

RECURSIVE get_content_type(_)
RECURSIVE get_conditional_data(_)

\* fn get_conditional_data
get_conditional_data(input) ==
    IF ~str_ends_with(input, EndifTag) /\ ~str_ends_with(input, EndforTag)
    THEN Err("Invalid input format")
    ELSE
    LET if_at  == str_find(input, IfPrefix)
        for_at == str_find(input, ForPrefix)
    IN  IF if_at = -1 /\ for_at = -1 THEN Panicked   \* .expect(..) on None
        ELSE
        LET start_condition == IF if_at /= -1 THEN if_at + 6 ELSE for_at + 7
            end_condition   == str_find(input, CondClose)
            endif_at        == str_find(input, EndifTag)
            end_expr        == IF endif_at /= -1 THEN endif_at
                               ELSE str_find(input, EndforTag)
        IN  IF end_condition = -1 \/ end_expr = -1 THEN Panicked  \* unwrap / expect
            ELSE IF start_condition >= end_condition THEN Err("Invalid input format")
            ELSE
            LET condition == get_conditional_expression(
                                 slice(input, start_condition, end_condition))
            IN  IF condition.res = "Err" THEN condition               \* the ? operator
                ELSE IF ~slice_ok(input, end_condition + 3, end_expr)
                     THEN Panicked                                    \* slice out of order
                ELSE
                LET body == get_content_type(
                                str_trim(slice(input, end_condition + 3, end_expr)))
                IN  IF body.type = "Panic" THEN Panicked
                    ELSE Ok([condition |-> condition.val, expression |-> body])

\* get_content_type with the if check ahead of the for check
get_content_type_if_first(input) ==
    LET is_tag_expression == check_matching_pair(input, TagOpen, TagClose)
        is_for_tag == \/ (check_symbol_string(input, KwFor) /\ check_symbol_string(input, KwIn))
                      \/ check_symbol_string(input, KwEndfor)
        is_if_tag == check_symbol_string(input, KwIf) \/ check_symbol_string(input, KwEndif)
        is_template_variable == check_matching_pair(input, VarOpen, VarClose)
    IN  IF is_tag_expression /\ is_if_tag
        THEN LET content == get_conditional_data(input)
             IN  IF content.res = "Ok" THEN Tag("IfTag", content.val) ELSE Panic
        ELSE IF is_tag_expression /\ is_for_tag
        THEN LET content == get_conditional_data(input)
             IN  IF content.res = "Ok" THEN Tag("ForTag", content.val) ELSE Panic
        ELSE IF is_template_variable
        THEN TemplateVariable(get_expression_data(input))
        ELSE IF ~is_tag_expression /\ ~is_template_variable
        THEN Literal(input)
        ELSE Unrecognized

\* fn get_content_type; content.expect(..) panics on an Err
get_content_type(input) ==
    LET is_tag_expression == check_matching_pair(input, TagOpen, TagClose)
        is_for_tag == \/ (check_symbol_string(input, KwFor) /\ check_symbol_string(input, KwIn))
                      \/ check_symbol_string(input, KwEndfor)
        is_if_tag == check_symbol_string(input, KwIf) \/ check_symbol_string(input, KwEndif)
        is_template_variable == check_matching_pair(input, VarOpen, VarClose)
    IN  IF is_tag_expression /\ is_for_tag
        THEN LET content == get_conditional_data(input)
             IN  IF content.res = "Ok" THEN Tag("ForTag", content.val) ELSE Panic
        ELSE IF is_tag_expression /\ is_if_tag
        THEN LET content == get_conditional_data(input)
             IN  IF content.res = "Ok" THEN Tag("IfTag", content.val) ELSE Panic
        ELSE IF is_template_variable
        THEN TemplateVariable(get_expression_data(input))
        ELSE IF ~is_tag_expression /\ ~is_template_variable
        THEN Literal(input)
        ELSE Unrecognized

\* get_conditional_data makes no call of get_content_type
NoCall == [call |-> FALSE]

\* the body handed on without the slice: the whole input again
conditional_body_whole_input(input) == [call |-> TRUE, text |-> input]

\* fn get_conditional_data, up to its call of get_content_type: the text
\* &input[end_condition + 3..end_expr].trim() the call is made on, or NoCall
\* when the function returns or panics before it
conditional_body(input) ==
    IF ~str_ends_with(input, EndifTag) /\ ~str_ends_with(input, EndforTag)
    THEN NoCall
    ELSE
    LET if_at  == str_find(input, IfPrefix)
        for_at == str_find(input, ForPrefix)
    IN  IF if_at = -1 /\ for_at = -1 THEN NoCall
        ELSE
        LET start_condition == IF if_at /= -1 THEN if_at + 6 ELSE for_at + 7
            end_condition   == str_find(input, CondClose)
            endif_at        == str_find(input, EndifTag)
            end_expr        == IF endif_at /= -1 THEN endif_at
                               ELSE str_find(input, EndforTag)
        IN  IF end_condition = -1 \/ end_expr = -1 THEN NoCall
            ELSE IF start_condition >= end_condition THEN NoCall
            ELSE IF get_conditional_expression(
                        slice(input, start_condition, end_condition)).res = "Err"
            THEN NoCall
            ELSE IF ~slice_ok(input, end_condition + 3, end_expr) THEN NoCall
            ELSE [call |-> TRUE,
                  text |-> str_trim(slice(input, end_condition + 3, end_expr))]

(***************************************************************************)
(* generator.rs.  Context is HashMap<String, Vec<String>>: a function from  *)
(* names to sequences of strings; context.get(k) is Some iff k is in its    *)
(* domain.  The generators take the content by &mut and write gen_html, so  *)
(* they yield the content as they leave it beside what they return.         *)
(***************************************************************************)

\* the loop of generate_html_template_var with an `if let Some(..)` in the place
\* of the unwrap: a name that is not in the context is skipped
RECURSIVE substitute_vars_skip_unbound(_, _, _, _)
substitute_vars_skip_unbound(var_map, n, gen_html, context) ==
    IF n > Len(var_map) THEN Ok(gen_html)
    ELSE
    LET var == var_map[n]
        i   == get_index_for_symbol(var, "{")
        k   == get_index_for_symbol(var, "}")
    IN  IF i = -1 \/ k = -1 \/ ~slice_ok(var, i + 2, k) THEN Panicked
        ELSE
        LET var_without_braces == slice(var, i + 2, k)
        IN  IF var_without_braces \notin DOMAIN context
            THEN substitute_vars_skip_unbound(var_map, n + 1, gen_html, context)
            ELSE IF Len(context[var_without_braces]) = 0 THEN Panicked
            ELSE substitute_vars_skip_unbound(
                     var_map, n + 1,
                     str_replace(gen_html, var, context[var_without_braces][1]),
                     context)

\* the loop of generate_html_template_var over content.var_map, from entry n on
RECURSIVE substitute_vars(_, _, _, _)
substitute_vars(var_map, n, gen_html, context) ==
    IF n > Len(var_map) THEN Ok(gen_html)
    ELSE
    LET var == var_map[n]
        i   == get_index_for_symbol(var, "{")
        k   == get_index_for_symbol(var, "}")
    IN  IF i = -1 \/ k = -1 THEN Panicked                        \* .unwrap()
        ELSE IF ~slice_ok(var, i + 2, k) THEN Panicked           \* &var[(i + 2)..k]
        ELSE
        LET var_without_braces == slice(var, i + 2, k)
        IN  IF var_without_braces \notin DOMAIN context THEN Panicked   \* .unwrap()
            ELSE IF Len(context[var_without_braces]) = 0 THEN Panicked  \* [0]
            ELSE substitute_vars(var_map, n + 1,
                                 str_replace(gen_html, var, context[var_without_braces][1]),
                                 context)

\* fn generate_html_template_var: Ok(content as written) or a panic
generate_html_template_var(content, context) ==
    LET r == substitute_vars(content.var_map, 1, content.expression, context)
    IN  IF r.res = "Ok" THEN Ok([content EXCEPT !.gen_html = r.val]) ELSE Panicked

\* what generate_html_tag returns and the Conditional as it leaves it
Html(html, content) == [res |-> "Ok", val |-> html, content |-> content]

\* the for loop of the In arm with the newline pushed between the repetitions
\* and not after each
RECURSIVE for_each_element_joined(_, _, _, _)
for_each_element_joined(right_operand, n, body, html) ==
    IF n > Len(right_operand) THEN [res |-> "Ok", val |-> html, body |-> body]
    ELSE
    LET element == right_operand[n]
        sep     == IF n > 1 THEN << "\n" >> ELSE << >>
    IN  IF body.type = "Literal"
        THEN for_each_element_joined(right_operand, n + 1, body, html \o sep \o body.text)
        ELSE IF body.type = "TemplateVariable"
        THEN IF Len(body.data.var_map) = 0 THEN Panicked
             ELSE LET gen_html == str_replace(body.data.expression,
                                              body.data.var_map[1], element)
                  IN  for_each_element_joined(right_operand, n + 1,
                                              [body EXCEPT !.data.gen_html = gen_html],
                                              html \o sep \o gen_html)
        ELSE for_each_element_joined(right_operand, n + 1, body, html \o sep)

\* the for loop of the In arm over right_operand, from element n on; body is
\* content.expression as the iterations so far have left it
RECURSIVE for_each_element(_, _, _, _)
for_each_element(right_operand, n, body, html) ==
    IF n > Len(right_operand) THEN [res |-> "Ok", val |-> html, body |-> body]
    ELSE
    LET element == right_operand[n]
    IN  IF body.type = "Literal"
        THEN for_each_element(right_operand, n + 1, body, html \o body.text \o << "\n" >>)
        ELSE IF body.type = "TemplateVariable"
        THEN IF Len(body.data.var_map) = 0 THEN Panicked          \* data.var_map[0]
             ELSE LET gen_html == str_replace(body.data.expression,
                                              body.data.var_map[1], element)
                  IN  for_each_element(right_operand, n + 1,
                                       [body EXCEPT !.data.gen_html = gen_html],
                                       html \o gen_html \o << "\n" >>)
        ELSE for_each_element(right_operand, n + 1, body, html \o << "\n" >>)

\* the comparison as right_operand.iter().zip(left_operand).all(|(r, l)| r == l):
\* the elements left_operand has beyond right_operand are not compared
vec_eq_zip(right_operand, left_operand) ==
    /\ Len(right_operand) <= Len(left_operand)
    /\ \A n \in DOMAIN right_operand : right_operand[n] = left_operand[n]

\* right_operand == *left_operand: Vec equality, element by element
vec_eq(right_operand, left_operand) == right_operand = left_operand

\* the lookup of the key with .unwrap(), as generate_html_template_var has it
lookup_miss_unwrap(content) == Panicked

\* the miss returning String::new()
lookup_miss_empty(content) == Html(<< >>, content)

\* None => return " ".to_string(): the key of the condition is not in the context
lookup_miss(content) == Html(<< " " >>, content)

\* generate_html_tag with the In arm looking up the left operand, the loop
\* variable, in place of the right operand
RECURSIVE generate_html_tag_left_lookup(_, _)
generate_html_tag_left_lookup(content, context) ==
    LET operation == content.condition.operation
    IN  IF operation.op = "Equal"
        THEN LET right_operand == str_split(content.condition.right_operand, << " " >>)
             IN  IF content.condition.left_operand \notin DOMAIN context
                 THEN lookup_miss(content)
                 ELSE
                 LET left_operand == context[content.condition.left_operand]
                     body         == content.expression
                 IN  IF ~vec_eq(right_operand, left_operand) THEN Html(<< >>, content)
                     ELSE IF body.type = "Literal" THEN Html(body.text, content)
                     ELSE IF body.type = "Tag"
                     THEN LET r == generate_html_tag_left_lookup(body.data, context)
                          IN  IF r.res /= "Ok" THEN Panicked
                              ELSE Html(r.val,
                                        [content EXCEPT !.expression.data = r.content])
                     ELSE IF body.type = "TemplateVariable"
                     THEN LET r == generate_html_template_var(body.data, context)
                          IN  IF r.res /= "Ok" THEN Panicked
                              ELSE Html(r.val.gen_html,
                                        [content EXCEPT !.expression.data = r.val])
                     ELSE Html(<< >>, content)
        ELSE IF operation.op = "In"
        THEN IF content.condition.left_operand \notin DOMAIN context
             THEN lookup_miss(content)
             ELSE
             LET r == for_each_element(context[content.condition.left_operand], 1,
                                       content.expression, << >>)
             IN  IF r.res /= "Ok" THEN Panicked
                 ELSE Html(r.val, [content EXCEPT !.expression = r.body])
        ELSE Html(operation.msg, content)

\* fn generate_html_tag
RECURSIVE generate_html_tag(_, _)
generate_html_tag(content, context) ==
    LET operation == content.condition.operation
    IN  IF operation.op = "Equal"
        THEN LET right_operand == str_split(content.condition.right_operand, << " " >>)
             IN  IF content.condition.left_operand \notin DOMAIN context
                 THEN lookup_miss(content)
                 ELSE
                 LET left_operand == context[content.condition.left_operand]
                     body         == content.expression
                 IN  IF ~vec_eq(right_operand, left_operand) THEN Html(<< >>, content)
                     ELSE IF body.type = "Literal" THEN Html(body.text, content)
                     ELSE IF body.type = "Tag"
                     THEN LET r == generate_html_tag(body.data, context)
                          IN  IF r.res /= "Ok" THEN Panicked
                              ELSE Html(r.val,
                                        [content EXCEPT !.expression.data = r.content])
                     ELSE IF body.type = "TemplateVariable"
                     THEN LET r == generate_html_template_var(body.data, context)
                          IN  IF r.res /= "Ok" THEN Panicked
                              ELSE Html(r.val.gen_html,
                                        [content EXCEPT !.expression.data = r.val])
                     ELSE Html(<< >>, content)
        ELSE IF operation.op = "In"
        THEN IF content.condition.right_operand \notin DOMAIN context
             THEN lookup_miss(content)
             ELSE
             LET r == for_each_element(context[content.condition.right_operand], 1,
                                       content.expression, << >>)
             IN  IF r.res /= "Ok" THEN Panicked
                 ELSE Html(r.val, [content EXCEPT !.expression = r.body])
        ELSE Html(operation.msg, content)

(***************************************************************************)
(* The inputs: lines of standard input and contexts.                       *)
(***************************************************************************)

\* "<h1>Hello world</h1>"
LitHello == << "<", "h", "1", ">", "H", "e", "l", "l", "o", " ", "w", "o", "r", "l", "d", "<", "/", "h", "1", ">" >>

\* "info for x in y endif endfor"
LitKeywords == << "i", "n", "f", "o", " ", "f", "o", "r", " ", "x", " ", "i", "n", " ", "y", " ", "e", "n", "d", "i", "f", " ", "e", "n", "d", "f", "o", "r" >>

\* ""
LitEmpty == << >>

\* "{x} 5% if }"
LitBraces == << "{", "x", "}", " ", "5", "%", " ", "i", "f", " ", "}" >>

\* "Hi {{name"
LitOpenVar == << "H", "i", " ", "{", "{", "n", "a", "m", "e" >>

\* "{% hello"
LitOpenTag == << "{", "%", " ", "h", "e", "l", "l", "o" >>

\* "Hi {{name}} ,welcome"
VarWelcome == << "H", "i", " ", "{", "{", "n", "a", "m", "e", "}", "}", " ", ",", "w", "e", "l", "c", "o", "m", "e" >>

\* "{{name}}"
VarAlone == << "{", "{", "n", "a", "m", "e", "}", "}" >>

\* "{{name}} and {{name}}"
VarTwice == << "{", "{", "n", "a", "m", "e", "}", "}", " ", "a", "n", "d", " ", "{", "{", "n", "a", "m", "e", "}", "}" >>

\* "{{name}} in {{city}}"
VarTwo == << "{", "{", "n", "a", "m", "e", "}", "}", " ", "i", "n", " ", "{", "{", "c", "i", "t", "y", "}", "}" >>

\* "{{name}} x{{name}}"
VarPrefixed == << "{", "{", "n", "a", "m", "e", "}", "}", " ", "x", "{", "{", "n", "a", "m", "e", "}", "}" >>

\* "Hi {{name}}, welcome"
VarGlued == << "H", "i", " ", "{", "{", "n", "a", "m", "e", "}", "}", ",", " ", "w", "e", "l", "c", "o", "m", "e" >>

\* "Hi {{who}} !"
VarUnbound == << "H", "i", " ", "{", "{", "w", "h", "o", "}", "}", " ", "!" >>

\* "{{name}} {{who}}"
VarSecondUnbound == << "{", "{", "n", "a", "m", "e", "}", "}", " ", "{", "{", "w", "h", "o", "}", "}" >>

\* "Hi {{ name }}"
VarSpaced == << "H", "i", " ", "{", "{", " ", "n", "a", "m", "e", " ", "}", "}" >>

\* "{% x %} {{city}}"
VarInTag == << "{", "%", " ", "x", " ", "%", "}", " ", "{", "{", "c", "i", "t", "y", "}", "}" >>

\* "{% hello %}"
UnrecTag == << "{", "%", " ", "h", "e", "l", "l", "o", " ", "%", "}" >>

\* "{% if name = Bob %} <h1> hello Bob </h1> {% endif %}"
IfLiteral == << "{", "%", " ", "i", "f", " ", "n", "a", "m", "e", " ", "=", " ", "B", "o", "b", " ", "%", "}", " ", "<", "h", "1", ">", " ", "h", "e", "l", "l", "o", " ", "B", "o", "b", " ", "<", "/", "h", "1", ">", " ", "{", "%", " ", "e", "n", "d", "i", "f", " ", "%", "}" >>

\* "{% if name = Bob %} <h1> hello {{name}} </h1> {% endif %}"
IfVar == << "{", "%", " ", "i", "f", " ", "n", "a", "m", "e", " ", "=", " ", "B", "o", "b", " ", "%", "}", " ", "<", "h", "1", ">", " ", "h", "e", "l", "l", "o", " ", "{", "{", "n", "a", "m", "e", "}", "}", " ", "<", "/", "h", "1", ">", " ", "{", "%", " ", "e", "n", "d", "i", "f", " ", "%", "}" >>

\* "{% if name = Bob %} {{who}} {% endif %}"
IfVarUnbound == << "{", "%", " ", "i", "f", " ", "n", "a", "m", "e", " ", "=", " ", "B", "o", "b", " ", "%", "}", " ", "{", "{", "w", "h", "o", "}", "}", " ", "{", "%", " ", "e", "n", "d", "i", "f", " ", "%", "}" >>

\* "{% if who = Bob %} hi {% endif %}"
IfUnboundKey == << "{", "%", " ", "i", "f", " ", "w", "h", "o", " ", "=", " ", "B", "o", "b", " ", "%", "}", " ", "h", "i", " ", "{", "%", " ", "e", "n", "d", "i", "f", " ", "%", "}" >>

\* "{% if who = Bob %} {{name}} {% endif %}"
IfUnboundKeyVar == << "{", "%", " ", "i", "f", " ", "w", "h", "o", " ", "=", " ", "B", "o", "b", " ", "%", "}", " ", "{", "{", "n", "a", "m", "e", "}", "}", " ", "{", "%", " ", "e", "n", "d", "i", "f", " ", "%", "}" >>

\* "{% if pair = a b %} yes {% endif %}"
IfPair == << "{", "%", " ", "i", "f", " ", "p", "a", "i", "r", " ", "=", " ", "a", " ", "b", " ", "%", "}", " ", "y", "e", "s", " ", "{", "%", " ", "e", "n", "d", "i", "f", " ", "%", "}" >>

\* "{% if pair = a  b %} yes {% endif %}"
IfPairWide == << "{", "%", " ", "i", "f", " ", "p", "a", "i", "r", " ", "=", " ", "a", " ", " ", "b", " ", "%", "}", " ", "y", "e", "s", " ", "{", "%", " ", "e", "n", "d", "i", "f", " ", "%", "}" >>

\* "{% if name > Bob %} hi {% endif %}"
IfGreater == << "{", "%", " ", "i", "f", " ", "n", "a", "m", "e", " ", ">", " ", "B", "o", "b", " ", "%", "}", " ", "h", "i", " ", "{", "%", " ", "e", "n", "d", "i", "f", " ", "%", "}" >>

\* "{% if name >= Bob %} hi {% endif %}"
IfGreaterEq == << "{", "%", " ", "i", "f", " ", "n", "a", "m", "e", " ", ">", "=", " ", "B", "o", "b", " ", "%", "}", " ", "h", "i", " ", "{", "%", " ", "e", "n", "d", "i", "f", " ", "%", "}" >>

\* "{% if name <= Bob %} hi {% endif %}"
IfLessEq == << "{", "%", " ", "i", "f", " ", "n", "a", "m", "e", " ", "<", "=", " ", "B", "o", "b", " ", "%", "}", " ", "h", "i", " ", "{", "%", " ", "e", "n", "d", "i", "f", " ", "%", "}" >>

\* "{% if name %} hi {% endif %}"
IfNoOperator == << "{", "%", " ", "i", "f", " ", "n", "a", "m", "e", " ", "%", "}", " ", "h", "i", " ", "{", "%", " ", "e", "n", "d", "i", "f", " ", "%", "}" >>

\* "{% if x in name %} hi {% endif %}"
IfIn == << "{", "%", " ", "i", "f", " ", "x", " ", "i", "n", " ", "n", "a", "m", "e", " ", "%", "}", " ", "h", "i", " ", "{", "%", " ", "e", "n", "d", "i", "f", " ", "%", "}" >>

\* "{% if name = Bob %} {% y %} {% endif %}"
IfUnrecBody == << "{", "%", " ", "i", "f", " ", "n", "a", "m", "e", " ", "=", " ", "B", "o", "b", " ", "%", "}", " ", "{", "%", " ", "y", " ", "%", "}", " ", "{", "%", " ", "e", "n", "d", "i", "f", " ", "%", "}" >>

\* "{% if name = Bob %} hi"
IfNoClose == << "{", "%", " ", "i", "f", " ", "n", "a", "m", "e", " ", "=", " ", "B", "o", "b", " ", "%", "}", " ", "h", "i" >>

\* "{% if name = Bob %} {% if city = Boston %} hi {% endif %} {% endif %}"
IfInIf == << "{", "%", " ", "i", "f", " ", "n", "a", "m", "e", " ", "=", " ", "B", "o", "b", " ", "%", "}", " ", "{", "%", " ", "i", "f", " ", "c", "i", "t", "y", " ", "=", " ", "B", "o", "s", "t", "o", "n", " ", "%", "}", " ", "h", "i", " ", "{", "%", " ", "e", "n", "d", "i", "f", " ", "%", "}", " ", "{", "%", " ", "e", "n", "d", "i", "f", " ", "%", "}" >>

\* "{% if name = Bob %} {% for x in name %} {{x}} {% endfor %} {% endif %}"
ForInIf == << "{", "%", " ", "i", "f", " ", "n", "a", "m", "e", " ", "=", " ", "B", "o", "b", " ", "%", "}", " ", "{", "%", " ", "f", "o", "r", " ", "x", " ", "i", "n", " ", "n", "a", "m", "e", " ", "%", "}", " ", "{", "{", "x", "}", "}", " ", "{", "%", " ", "e", "n", "d", "f", "o", "r", " ", "%", "}", " ", "{", "%", " ", "e", "n", "d", "i", "f", " ", "%", "}" >>

\* "{% if x in name %} {% for y in who %} hi {% endfor %} {% endif %}"
ForInIfIn == << "{", "%", " ", "i", "f", " ", "x", " ", "i", "n", " ", "n", "a", "m", "e", " ", "%", "}", " ", "{", "%", " ", "f", "o", "r", " ", "y", " ", "i", "n", " ", "w", "h", "o", " ", "%", "}", " ", "h", "i", " ", "{", "%", " ", "e", "n", "d", "f", "o", "r", " ", "%", "}", " ", "{", "%", " ", "e", "n", "d", "i", "f", " ", "%", "}" >>

\* "{% endif %}"
EndifOnly == << "{", "%", " ", "e", "n", "d", "i", "f", " ", "%", "}" >>

\* "%} {% if name = Bob {% endif %}"
IfNoBody == << "%", "}", " ", "{", "%", " ", "i", "f", " ", "n", "a", "m", "e", " ", "=", " ", "B", "o", "b", " ", "{", "%", " ", "e", "n", "d", "i", "f", " ", "%", "}" >>

\* "{% for customer in name %} <li> {{customer}} </li> {% endfor %}"
ForVar == << "{", "%", " ", "f", "o", "r", " ", "c", "u", "s", "t", "o", "m", "e", "r", " ", "i", "n", " ", "n", "a", "m", "e", " ", "%", "}", " ", "<", "l", "i", ">", " ", "{", "{", "c", "u", "s", "t", "o", "m", "e", "r", "}", "}", " ", "<", "/", "l", "i", ">", " ", "{", "%", " ", "e", "n", "d", "f", "o", "r", " ", "%", "}" >>

\* "{% for x in name %} {{x}} and {{y}} {{x}} {% endfor %}"
ForTwo == << "{", "%", " ", "f", "o", "r", " ", "x", " ", "i", "n", " ", "n", "a", "m", "e", " ", "%", "}", " ", "{", "{", "x", "}", "}", " ", "a", "n", "d", " ", "{", "{", "y", "}", "}", " ", "{", "{", "x", "}", "}", " ", "{", "%", " ", "e", "n", "d", "f", "o", "r", " ", "%", "}" >>

\* "{% for x in name %} <li> hi </li> {% endfor %}"
ForLiteral == << "{", "%", " ", "f", "o", "r", " ", "x", " ", "i", "n", " ", "n", "a", "m", "e", " ", "%", "}", " ", "<", "l", "i", ">", " ", "h", "i", " ", "<", "/", "l", "i", ">", " ", "{", "%", " ", "e", "n", "d", "f", "o", "r", " ", "%", "}" >>

\* "{% for x in who %} {{x}} {% endfor %}"
ForUnboundKey == << "{", "%", " ", "f", "o", "r", " ", "x", " ", "i", "n", " ", "w", "h", "o", " ", "%", "}", " ", "{", "{", "x", "}", "}", " ", "{", "%", " ", "e", "n", "d", "f", "o", "r", " ", "%", "}" >>

\* "{% for x in things %} {{x}} {% endfor %}"
ForThings == << "{", "%", " ", "f", "o", "r", " ", "x", " ", "i", "n", " ", "t", "h", "i", "n", "g", "s", " ", "%", "}", " ", "{", "{", "x", "}", "}", " ", "{", "%", " ", "e", "n", "d", "f", "o", "r", " ", "%", "}" >>

\* "{% for x in name %} {{ x }} {% endfor %}"
ForSpaced == << "{", "%", " ", "f", "o", "r", " ", "x", " ", "i", "n", " ", "n", "a", "m", "e", " ", "%", "}", " ", "{", "{", " ", "x", " ", "}", "}", " ", "{", "%", " ", "e", "n", "d", "f", "o", "r", " ", "%", "}" >>

\* "{% for x in name %} {% y %} {% endfor %}"
ForUnrecBody == << "{", "%", " ", "f", "o", "r", " ", "x", " ", "i", "n", " ", "n", "a", "m", "e", " ", "%", "}", " ", "{", "%", " ", "y", " ", "%", "}", " ", "{", "%", " ", "e", "n", "d", "f", "o", "r", " ", "%", "}" >>

\* "{% for x in name %} {{x}}"
ForNoClose == << "{", "%", " ", "f", "o", "r", " ", "x", " ", "i", "n", " ", "n", "a", "m", "e", " ", "%", "}", " ", "{", "{", "x", "}", "}" >>

\* "{% for name = Bob %} in {% endfor %}"
ForEqual == << "{", "%", " ", "f", "o", "r", " ", "n", "a", "m", "e", " ", "=", " ", "B", "o", "b", " ", "%", "}", " ", "i", "n", " ", "{", "%", " ", "e", "n", "d", "f", "o", "r", " ", "%", "}" >>

\* "{% if name = Bob %} {{ x }} {% endif %}"
IfSpaced == << "{", "%", " ", "i", "f", " ", "n", "a", "m", "e", " ", "=", " ", "B", "o", "b", " ", "%", "}", " ", "{", "{", " ", "x", " ", "}", "}", " ", "{", "%", " ", "e", "n", "d", "i", "f", " ", "%", "}" >>

\* "{% if name = Bob %} {% for x in name %} {{x}} and {{y}} {% endfor %} {% endif %}"
IfForTwo == << "{", "%", " ", "i", "f", " ", "n", "a", "m", "e", " ", "=", " ", "B", "o", "b", " ", "%", "}", " ", "{", "%", " ", "f", "o", "r", " ", "x", " ", "i", "n", " ", "n", "a", "m", "e", " ", "%", "}", " ", "{", "{", "x", "}", "}", " ", "a", "n", "d", " ", "{", "{", "y", "}", "}", " ", "{", "%", " ", "e", "n", "d", "f", "o", "r", " ", "%", "}", " ", "{", "%", " ", "e", "n", "d", "i", "f", " ", "%", "}" >>

\* "{% if who > Bob %} {{who}} {% endif %}"
IfGreaterVar == << "{", "%", " ", "i", "f", " ", "w", "h", "o", " ", ">", " ", "B", "o", "b", " ", "%", "}", " ", "{", "{", "w", "h", "o", "}", "}", " ", "{", "%", " ", "e", "n", "d", "i", "f", " ", "%", "}" >>

\* "{% if name < Bob %} hi {% endif %}"
IfLess == << "{", "%", " ", "i", "f", " ", "n", "a", "m", "e", " ", "<", " ", "B", "o", "b", " ", "%", "}", " ", "h", "i", " ", "{", "%", " ", "e", "n", "d", "i", "f", " ", "%", "}" >>

\* "done %}"
LitCloseTag == << "d", "o", "n", "e", " ", "%", "}" >>

\* "{% for x in name %} {% for y in city %} hi {% endfor %} {% endfor %}"
ForInFor == << "{", "%", " ", "f", "o", "r", " ", "x", " ", "i", "n", " ", "n", "a", "m", "e", " ", "%", "}", " ", "{", "%", " ", "f", "o", "r", " ", "y", " ", "i", "n", " ", "c", "i", "t", "y", " ", "%", "}", " ", "h", "i", " ", "{", "%", " ", "e", "n", "d", "f", "o", "r", " ", "%", "}", " ", "{", "%", " ", "e", "n", "d", "f", "o", "r", " ", "%", "}" >>

\* "{% for x in name %} {% if city = Boston %} hi {% endif %} {% endfor %}"
IfInFor == << "{", "%", " ", "f", "o", "r", " ", "x", " ", "i", "n", " ", "n", "a", "m", "e", " ", "%", "}", " ", "{", "%", " ", "i", "f", " ", "c", "i", "t", "y", " ", "=", " ", "B", "o", "s", "t", "o", "n", " ", "%", "}", " ", "h", "i", " ", "{", "%", " ", "e", "n", "d", "i", "f", " ", "%", "}", " ", "{", "%", " ", "e", "n", "d", "f", "o", "r", " ", "%", "}" >>

\* "{% if a > b > c = d %} hi {% endif %}"
IfNoFallback == << "{", "%", " ", "i", "f", " ", "a", " ", ">", " ", "b", " ", ">", " ", "c", " ", "=", " ", "d", " ", "%", "}", " ", "h", "i", " ", "{", "%", " ", "e", "n", "d", "i", "f", " ", "%", "}" >>

\* "Hi\t{{name}}  {{city}} !"
VarTabbed == << "H", "i", "\t", "{", "{", "n", "a", "m", "e", "}", "}", " ", " ", "{", "{", "c", "i", "t", "y", "}", "}", " ", "!" >>

Lines ==
    { VarTabbed,
      IfNoFallback,
      IfSpaced, IfForTwo, IfGreaterVar, IfLess, LitCloseTag, ForInFor, IfInFor,
      VarPrefixed, ForTwo, LitHello, LitKeywords, LitEmpty, LitBraces, LitOpenVar,
      LitOpenTag, VarWelcome, VarAlone, VarTwice, VarTwo,
      VarGlued, VarUnbound, VarSecondUnbound, VarSpaced, VarInTag,
      UnrecTag, IfLiteral, IfVar, IfVarUnbound, IfUnboundKey,
      IfUnboundKeyVar, IfPair, IfPairWide, IfGreater, IfGreaterEq,
      IfLessEq, IfNoOperator, IfIn, IfUnrecBody, IfNoClose,
      IfInIf, ForInIf, ForInIfIn, EndifOnly, IfNoBody,
      ForVar, ForLiteral, ForUnboundKey, ForThings, ForSpaced,
      ForUnrecBody, ForNoClose, ForEqual }

\* "name"
W_name == << "n", "a", "m", "e" >>

\* "city"
W_city == << "c", "i", "t", "y" >>

\* "pair"
W_pair == << "p", "a", "i", "r" >>

\* "Bob"
W_Bob == << "B", "o", "b" >>

\* "Lisa"
W_Lisa == << "L", "i", "s", "a" >>

\* "Boston"
W_Boston == << "B", "o", "s", "t", "o", "n" >>

\* "a"
W_a == << "a" >>

\* "b"
W_b == << "b" >>


\* the context main builds (main.rs)
CtxMain == (W_name :> << W_Bob >>) @@ (W_city :> << W_Boston >>)

\* the context of the test check_for_tag_one (generator.rs)
CtxTest == (W_name :> << W_Bob, W_Lisa >>) @@ (W_city :> << W_Boston >>)

\* a context with a two-element binding
CtxPair == (W_name :> << W_Bob >>) @@ (W_city :> << W_Boston >>)
           @@ (W_pair :> << W_a, W_b >>)

\* a context that binds a name to the empty Vec
CtxEmptyVec == (W_name :> << >>) @@ (W_city :> << W_Boston >>)

\* a context that binds no name
CtxNone == [k \in {} |-> << >>]

Contexts == { CtxMain, CtxTest, CtxPair, CtxEmptyVec, CtxNone }

\* the lines that inputs of several lines are made of
LoopLines == { LitHello, VarWelcome, IfLiteral, IfNoClose, UnrecTag, VarUnbound }

\* the longest input of several lines
MaxLines == 2

\* standard input: no line, any one line, or up to MaxLines of the LoopLines
Inputs ==
    { << >> } \cup { << l >> : l \in Lines }
    \cup UNION { [1..n -> LoopLines] : n \in 2..MaxLines }

(***************************************************************************)
(* main.rs: the loop over the lines of standard input.                     *)
(*   context  the HashMap built before the loop                            *)
(*   stdin    the lines of standard input                                  *)
(*   pos      the number of lines the loop has taken from stdin            *)
(*   content  the ContentType of the line being handled                    *)
(*   output   the texts printed so far, one per println                    *)
(*   pc       "read": at the head of the loop; "match": in the match on    *)
(*            the content; "exit": main returned; "abort": a panic ended   *)
(*            the process                                                  *)
(***************************************************************************)
VARIABLES context, stdin, pos, content, output, pc

vars == << context, stdin, pos, content, output, pc >>

\* no line has been classified yet
NoContent == [type |-> "None"]

Init ==
    /\ context \in Contexts
    /\ stdin \in Inputs
    /\ pos = 0
    /\ content = NoContent
    /\ output = << >>
    /\ pc = "read"

\* for line in stdin.lines(): match get_content_type(&line) ...
NextLine ==
    /\ pc = "read"
    /\ pos < Len(stdin)
    /\ pos' = pos + 1
    /\ content' = get_content_type(stdin[pos + 1])
    /\ pc' = IF content'.type = "Panic" THEN "abort" ELSE "match"
    /\ UNCHANGED << context, stdin, output >>

\* ContentType::TemplateVariable(mut content) => println!(generate_html_template_var(..).gen_html)
ArmTemplateVariable ==
    /\ pc = "match"
    /\ content.type = "TemplateVariable"
    /\ LET r == generate_html_template_var(content.data, context)
       IN  IF r.res = "Ok"
           THEN /\ content' = TemplateVariable(r.val)
                /\ output' = Append(output, r.val.gen_html)
                /\ pc' = "read"
           ELSE /\ pc' = "abort"
                /\ UNCHANGED << content, output >>
    /\ UNCHANGED << context, stdin, pos >>

\* ContentType::Literal(text) => println!(text)
ArmLiteral ==
    /\ pc = "match"
    /\ content.type = "Literal"
    /\ output' = Append(output, content.text)
    /\ pc' = "read"
    /\ UNCHANGED << context, stdin, pos, content >>

\* PrintTag with a lookup that binds a missing key to an empty sequence
\* (context.entry(key).or_default() in place of context.get(key))
PrintTag_entry_or_default ==
    /\ LET r == generate_html_tag(content.data, context)
       IN  IF r.res = "Ok"
           THEN /\ content' = [content EXCEPT !.data = r.content]
                /\ output' = Append(output, r.val)
                /\ pc' = "read"
           ELSE /\ pc' = "abort"
                /\ UNCHANGED << content, output >>
    /\ LET condition == content.data.condition
           key == IF condition.operation.op = "In"
                  THEN condition.right_operand ELSE condition.left_operand
       IN  context' = [k \in DOMAIN context \cup { key } |->
                          IF k \in DOMAIN context THEN context[k] ELSE << >>]
    /\ UNCHANGED << stdin, pos >>

\* the body of the two Tag arms: println!(generate_html_tag(&mut *content, &context))
PrintTag ==
    /\ LET r == generate_html_tag(content.data, context)
       IN  IF r.res = "Ok"
           THEN /\ content' = [content EXCEPT !.data = r.content]
                /\ output' = Append(output, r.val)
                /\ pc' = "read"
           ELSE /\ pc' = "abort"
                /\ UNCHANGED << content, output >>
    /\ UNCHANGED << context, stdin, pos >>

\* ContentType::Tag(TagType::ForTag(ref mut content)) => ...
ArmForTag ==
    /\ pc = "match"
    /\ content.type = "Tag"
    /\ content.tag = "ForTag"
    /\ PrintTag

\* the IfTag arm as an equality test only: a condition with another operator
\* prints the empty string
ArmIfTag_equal_only ==
    /\ pc = "match"
    /\ content.type = "Tag"
    /\ content.tag = "IfTag"
    /\ IF content.data.condition.operation.op = "Equal"
       THEN PrintTag
       ELSE /\ output' = Append(output, << >>)
            /\ pc' = "read"
            /\ UNCHANGED << context, stdin, pos, content >>

\* ContentType::Tag(TagType::IfTag(ref mut content)) => ...
ArmIfTag ==
    /\ pc = "match"
    /\ content.type = "Tag"
    /\ content.tag = "IfTag"
    /\ PrintTag

\* the Unrecognized arm as an error: nothing is printed and the process stops
ArmUnrecognized_halt ==
    /\ pc = "match"
    /\ content.type = "Unrecognized"
    /\ pc' = "abort"
    /\ UNCHANGED << context, stdin, pos, content, output >>

\* ContentType::Unrecognized => println!("Unrecognized input")
ArmUnrecognized ==
    /\ pc = "match"
    /\ content.type = "Unrecognized"
    /\ output' = Append(output, UnrecognizedInput)
    /\ pc' = "read"
    /\ UNCHANGED << context, stdin, pos, content >>

\* the iterator is exhausted: main returns
EndOfInput ==
    /\ pc = "read"
    /\ pos = Len(stdin)
    /\ pc' = "exit"
    /\ UNCHANGED << context, stdin, pos, content, output >>

Next ==
    \/ NextLine
    \/ ArmTemplateVariable
    \/ ArmLiteral
    \/ ArmForTag
    \/ ArmIfTag
    \/ ArmUnrecognized
    \/ EndOfInput

Spec == Init /\ [][Next]_vars

(***************************************************************************)
(* Properties.  The definitions below state what is checked; they do not   *)
(* enter the next-state relation.                                          *)
(***************************************************************************)

\* the line the loop took last (pos > 0)
Line == stdin[pos]

\* the match arm for Line has ended: it printed (pc "read", later "exit") or
\* the process aborted; content is then the content the arm was given
ArmEnded == pos > 0 /\ pc /= "match"

\* the arm for Line printed a text, which is the last text of output
Printed == ArmEnded /\ pc /= "abort" /\ Len(output) = pos

\* the process aborted while Line was classified or rendered
Aborted == pos > 0 /\ pc = "abort"

\* the two-character window of text at 1-based position i
Pair(text, i) == << text[i], text[i + 1] >>

\* text contains none of the four markers
NoMarker(text) ==
    \A i \in 1..(Len(text) - 1) :
        Pair(text, i) \notin { << "{", "{" >>, << "}", "}" >>,
                               << "{", "%" >>, << "%", "}" >> }

\* word occurs in text
Occurs(word, text) ==
    \E i \in 1..(Len(text) - Len(word) + 1) : SubSeq(text, i, i + Len(word) - 1) = word

\* the 1-based position of the first occurrence of word in text, 0 if none
FirstAt(word, text) ==
    IF Occurs(word, text)
    THEN CHOOSE i \in 1..(Len(text) - Len(word) + 1) :
             /\ SubSeq(text, i, i + Len(word) - 1) = word
             /\ \A j \in 1..(i - 1) : SubSeq(text, j, j + Len(word) - 1) /= word
    ELSE 0

\* C1: a line that contains none of the markers "{{", "}}", "{%", "%}" is
\* classified as Literal(line), the text unchanged, whatever keywords it contains
C1_LiteralUnchanged ==
    (pos > 0 /\ NoMarker(Line))
        => (content.type = "Literal" /\ content.text = Line)

\* a line without markers that contains the keywords for, in, if, endif and
\* endfor has been classified as a Literal and printed unchanged
C1_Witness ==
    /\ Printed
    /\ NoMarker(Line)
    /\ \A kw \in { KwFor, KwIn, KwIf, KwEndif, KwEndfor } : Occurs(kw, Line)
    /\ content.type = "Literal"
    /\ output[pos] = Line

\* the counts of "{%" and "%}" in text (no occurrence overlaps another)
Opens(text)  == Cardinality({ i \in 1..(Len(text) - 1) : Pair(text, i) = << "{", "%" >> })
Closes(text) == Cardinality({ i \in 1..(Len(text) - 1) : Pair(text, i) = << "%", "}" >> })

\* a directive line: balanced non-zero "{%" / "%}" markers and a for/if keyword
DirectiveLine(text) ==
    /\ Opens(text) = Closes(text)
    /\ Opens(text) > 0
    /\ \/ Occurs(KwFor, text) /\ Occurs(KwIn, text)
       \/ Occurs(KwIf, text)

\* text ends with "{% endif %}" or "{% endfor %}"
HasSuffix(text, suffix) ==
    /\ Len(text) >= Len(suffix)
    /\ SubSeq(text, Len(text) - Len(suffix) + 1, Len(text)) = suffix

Closed(text) == HasSuffix(text, EndifTag) \/ HasSuffix(text, EndforTag)

\* C2: classifying a directive line that does not end with "{% endif %}" or
\* "{% endfor %}" gives the caller a FormatError value; it never aborts the process
C2_MissingSuffixNoAbort ==
    (pos > 0 /\ DirectiveLine(Line) /\ ~Closed(Line)) => ~Aborted

\* C3: when the program has ended, every line that follows a directive line
\* without its closing tag has been taken by the loop (classified and rendered)
C3_LinesAfterMalformedRendered ==
    pc \in { "exit", "abort" } =>
        \A j \in 2..Len(stdin) :
            (\E i \in 1..(j - 1) : DirectiveLine(stdin[i]) /\ ~Closed(stdin[i]))
                => pos >= j

\* the text of placeholder between its first "{{" and the "}}" that follows
PlaceholderName(placeholder) ==
    LET open == FirstAt(VarOpen, placeholder)
        rest == SubSeq(placeholder, open + 2, Len(placeholder))
        shut == FirstAt(VarClose, rest)
    IN  IF open = 0 \/ shut = 0 THEN << >> ELSE SubSeq(rest, 1, shut - 1)

\* every placeholder names a key of the context that has an element 0
AllBound(placeholders, ctx) ==
    \A n \in DOMAIN placeholders :
        /\ PlaceholderName(placeholders[n]) \in DOMAIN ctx
        /\ ctx[PlaceholderName(placeholders[n])] /= << >>

\* text with every occurrence of token, leftmost first, replaced by value
RECURSIVE ReplaceEvery(_, _, _)
ReplaceEvery(text, token, value) ==
    LET at == FirstAt(token, text)
    IN  IF at = 0 THEN text
        ELSE SubSeq(text, 1, at - 1) \o value
             \o ReplaceEvery(SubSeq(text, at + Len(token), Len(text)), token, value)

\* rendered: text after the placeholders n.. have been substituted in order
RECURSIVE Substituted(_, _, _, _)
Substituted(text, placeholders, n, ctx) ==
    IF n > Len(placeholders) THEN text
    ELSE Substituted(ReplaceEvery(text, placeholders[n],
                                  ctx[PlaceholderName(placeholders[n])][1]),
                     placeholders, n + 1, ctx)

\* C4: rendering a Variable whose placeholder names are all bound returns the
\* source with every occurrence of each placeholder token replaced by element 0
\* of the sequence bound to its name, the other text unchanged
C4_VariableSubstituted ==
    (/\ ArmEnded
     /\ content.type = "TemplateVariable"
     /\ AllBound(content.data.var_map, context))
        => /\ Printed
           /\ output[pos] = Substituted(content.data.expression,
                                        content.data.var_map, 1, context)
           /\ content.data.gen_html = output[pos]

\* "Hi {{name}} ,welcome" has given "Hi Bob ,welcome" in the context of main,
\* which binds name to ["Bob"]
C4_Witness ==
    /\ Printed
    /\ content.type = "TemplateVariable"
    /\ Line = VarWelcome
    /\ context = CtxMain
    /\ output[pos] = << "H", "i", " ", "B", "o", "b", " ", ",",
                        "w", "e", "l", "c", "o", "m", "e" >>

\* C5: rendering a top-level Variable with a placeholder whose name is not a key
\* of the context fails: the process stops there and no text is printed for the
\* line, neither with the placeholder left in place nor with it removed
C5_UnboundVariableFails ==
    (/\ ArmEnded
     /\ content.type = "TemplateVariable"
     /\ \E n \in DOMAIN content.data.var_map :
            PlaceholderName(content.data.var_map[n]) \notin DOMAIN context)
        => /\ Aborted
           /\ Len(output) = pos - 1

\* a Variable whose first placeholder is bound and whose second is not has
\* failed without printing
C5_Witness ==
    /\ Aborted
    /\ content.type = "TemplateVariable"
    /\ Len(content.data.var_map) = 2
    /\ PlaceholderName(content.data.var_map[1]) \in DOMAIN context
    /\ PlaceholderName(content.data.var_map[2]) \notin DOMAIN context
    /\ Len(output) = pos - 1

\* the arm of a Tag has ended; Cond and Body are its condition and its body
TagEnded == ArmEnded /\ content.type = "Tag"

Cond == content.data.condition

Body == content.data.expression

\* text cut at every single space character
RECURSIVE SpaceTokens(_)
SpaceTokens(text) ==
    LET at == FirstAt(<< " " >>, text)
    IN  IF at = 0 THEN << text >>
        ELSE << SubSeq(text, 1, at - 1) >> \o SpaceTokens(SubSeq(text, at + 1, Len(text)))

\* text has no character that is not whitespace
Blank(text) == \A i \in DOMAIN text : text[i] \in { " ", "\t", "\n" }

\* text neither starts nor ends with whitespace
Trimmed(text) ==
    text /= << >> => (~Blank(<< text[1] >>) /\ ~Blank(<< text[Len(text)] >>))

\* C6: a directive with operator Equal whose left operand is bound renders its
\* body when the token list of the right operand equals the bound sequence
\* (same length, same order, same elements) and the empty string otherwise; a
\* Literal body renders as its trimmed text, verbatim
C6_EqualRendersBody ==
    (/\ TagEnded
     /\ Cond.operation.op = "Equal"
     /\ Cond.left_operand \in DOMAIN context)
        => IF SpaceTokens(Cond.right_operand) = context[Cond.left_operand]
           THEN CASE Body.type = "Literal" ->
                         /\ Printed
                         /\ output[pos] = Body.text
                         /\ Trimmed(output[pos])
                         /\ Occurs(output[pos], Line)
                  [] Body.type = "TemplateVariable"
                         /\ AllBound(Body.data.var_map, context) ->
                         /\ Printed
                         /\ output[pos] = Substituted(Body.data.expression,
                                                      Body.data.var_map, 1, context)
                  [] Body.type = "Tag" ->
                         LET r == generate_html_tag(Body.data, context)
                         IN  IF r.res = "Ok"
                             THEN Printed /\ output[pos] = r.val
                             ELSE Aborted
                  [] Body.type = "Unrecognized" ->
                         Printed /\ output[pos] = << >>
                  [] OTHER -> TRUE
           ELSE Printed /\ output[pos] = << >>

\* "{% if name = Bob %} <h1> hello Bob </h1> {% endif %}" has given
\* "<h1> hello Bob </h1>" in the context of main, which binds name to ["Bob"]
C6_Witness ==
    /\ Printed
    /\ Line = IfLiteral
    /\ context = CtxMain
    /\ output[pos] = << "<", "h", "1", ">", " ", "h", "e", "l", "l", "o", " ",
                        "B", "o", "b", " ", "<", "/", "h", "1", ">" >>

\* the repetitions of text for the elements n.., each with token replaced by the
\* element and followed by a newline
RECURSIVE Repeated(_, _, _, _)
Repeated(text, token, elements, n) ==
    IF n > Len(elements) THEN << >>
    ELSE ReplaceEvery(text, token, elements[n]) \o << "\n" >>
         \o Repeated(text, token, elements, n + 1)

\* C7: a directive with operator In whose right operand is bound to e1..en and
\* whose body is a Variable renders, in stored order, the body source with its
\* first placeholder token replaced by ei and a newline after each; the
\* placeholder names are not looked up in the context
C7_ForRepeatsVariable ==
    (/\ TagEnded
     /\ Cond.operation.op = "In"
     /\ Cond.right_operand \in DOMAIN context
     /\ Body.type = "TemplateVariable"
     /\ Body.data.var_map /= << >>)
        => /\ Printed
           /\ output[pos] = Repeated(Body.data.expression, Body.data.var_map[1],
                                     context[Cond.right_operand], 1)

\* the for line over name with the body "<li> {{customer}} </li>", in the context
\* of check_for_tag_one, which binds name to ["Bob", "Lisa"], has given "<li> Bob </li>\n<li> Lisa </li>\n"; customer is no key of the context
C7_Witness ==
    /\ Printed
    /\ Line = ForVar
    /\ context = CtxTest
    /\ PlaceholderName(Body.data.var_map[1]) \notin DOMAIN context
    /\ output[pos] = << "<", "l", "i", ">", " ", "B", "o", "b", " ", "<", "/", "l", "i", ">", "\n",
                        "<", "l", "i", ">", " ", "L", "i", "s", "a", " ", "<", "/", "l", "i", ">", "\n" >>

\* the key the condition looks up is not bound: the left operand for Equal, the
\* right operand for In
KeyUnbound(condition, ctx) ==
    \/ condition.operation.op = "Equal" /\ condition.left_operand \notin DOMAIN ctx
    \/ condition.operation.op = "In" /\ condition.right_operand \notin DOMAIN ctx

\* conditional and the directives nested in its body
RECURSIVE Directives(_)
Directives(conditional) ==
    { conditional } \cup
    (IF conditional.expression.type = "Tag"
     THEN Directives(conditional.expression.data) ELSE {})

\* C8: rendering a directive whose condition looks up a key that is not bound
\* raises no error and does not abort: it returns a blank text, for every body
\* kind, at the top level and nested
C8_UnboundKeyBlank ==
    TagEnded =>
        /\ KeyUnbound(Cond, context) => (Printed /\ Blank(output[pos]))
        /\ \A d \in Directives(content.data) :
               KeyUnbound(d.condition, context) =>
                   LET r == generate_html_tag(d, context)
                   IN  r.res = "Ok" /\ Blank(r.val)

\* a for directive with a Variable body over a key that is not bound has
\* printed a blank text
C8_Witness ==
    /\ Printed
    /\ content.type = "Tag"
    /\ Cond.operation.op = "In"
    /\ KeyUnbound(Cond, context)
    /\ Body.type = "TemplateVariable"
    /\ Blank(output[pos])

\* C9 as stated: the text rendered for a soft lookup miss is the empty string
C9_SoftMissEmpty ==
    (TagEnded /\ KeyUnbound(Cond, context))
        => (Printed /\ Len(output[pos]) = 0)

\* C9 as amended: the text rendered for a soft lookup miss is the one-character
\* text " ", while a false Equal comparison renders the empty string
C9_SoftMissOneSpace ==
    TagEnded =>
        /\ KeyUnbound(Cond, context) => (Printed /\ output[pos] = << " " >>)
        /\ (/\ Cond.operation.op = "Equal"
            /\ Cond.left_operand \in DOMAIN context
            /\ SpaceTokens(Cond.right_operand) /= context[Cond.left_operand])
               => (Printed /\ output[pos] = << >>)

\* an if directive whose left operand is not bound has printed " "
C9_Witness ==
    /\ Printed
    /\ content.type = "Tag"
    /\ Cond.operation.op = "Equal"
    /\ Cond.left_operand \notin DOMAIN context
    /\ output[pos] = << " " >>

\* what the loop does with line when it is the only line of the input:
\* the text it prints, or no text when the process aborts
Alone(line, ctx) ==
    LET c == get_content_type(line)
        printed(text) == [printed |-> TRUE, text |-> text]
        nothing == [printed |-> FALSE]
    IN  IF c.type = "Literal" THEN printed(c.text)
        ELSE IF c.type = "Unrecognized" THEN printed(UnrecognizedInput)
        ELSE IF c.type = "TemplateVariable"
        THEN LET r == generate_html_template_var(c.data, ctx)
             IN  IF r.res = "Ok" THEN printed(r.val.gen_html) ELSE nothing
        ELSE IF c.type = "Tag"
        THEN LET r == generate_html_tag(c.data, ctx)
             IN  IF r.res = "Ok" THEN printed(r.val) ELSE nothing
        ELSE nothing

\* C10: the output for a line depends on the line and the context only: when the
\* program has ended, every line of the input has the output it has when it is
\* processed alone, whatever lines precede it
C10_OrderIndependent ==
    pc \in { "exit", "abort" } =>
        \A n \in DOMAIN stdin :
            Alone(stdin[n], context).printed
                => (Len(output) >= n /\ output[n] = Alone(stdin[n], context).text)

\* C11: no step of the program changes the context: classifying a line, parsing
\* a directive and rendering (a lookup that misses softly or fails included)
\* leave its keys and the sequences bound to them as they were
C11_ContextUnchanged == [][context' = context]_vars

\* a directive whose key is not bound has been rendered to a blank text, and
\* the context is still the one main built
C11_Witness ==
    /\ Printed
    /\ content.type = "Tag"
    /\ KeyUnbound(Cond, context)
    /\ Blank(output[pos])
    /\ context = CtxMain

\* the comparison of an Equal directive holds: its left operand is bound to
\* the token list of its right operand
EqualHolds(condition, ctx) ==
    /\ condition.left_operand \in DOMAIN ctx
    /\ SpaceTokens(condition.right_operand) = ctx[condition.left_operand]

\* text is classified as a Literal with that text
ClassifiedLiteral(text) == get_content_type(text) = Literal(text)

\* C12 as stated: when a line is rendered through the Literal path or through
\* the Equal path of a directive, whatever its body, classifying the rendered
\* text again gives Literal: no balanced "{{ }}" or "{% %}" markers are left
C12_RenderedIsLiteral ==
    (/\ Printed
     /\ \/ content.type = "Literal"
        \/ content.type = "Tag" /\ Cond.operation.op = "Equal")
        => ClassifiedLiteral(output[pos])

\* C12: when a line is rendered through the Literal path, or through the Equal
\* path of a directive whose body is a Literal or Unrecognized, or whose
\* comparison does not hold, or whose key is not bound, classifying the
\* rendered text again gives Literal
C12_PlainBodyRenderedIsLiteral ==
    (/\ Printed
     /\ \/ content.type = "Literal"
        \/ /\ content.type = "Tag"
           /\ Cond.operation.op = "Equal"
           /\ \/ ~EqualHolds(Cond, context)
              \/ Body.type \in { "Literal", "Unrecognized" })
        => ClassifiedLiteral(output[pos])

\* an Equal directive whose comparison holds has rendered its Literal body,
\* and the text it printed is classified as a Literal
C12_Witness ==
    /\ Printed
    /\ content.type = "Tag"
    /\ Cond.operation.op = "Equal"
    /\ EqualHolds(Cond, context)
    /\ Body.type = "Literal"
    /\ output[pos] = Body.text
    /\ output[pos] /= << >>
    /\ ClassifiedLiteral(output[pos])

\* text starts with prefix
HasPrefix(text, prefix) ==
    Len(text) >= Len(prefix) /\ SubSeq(text, 1, Len(prefix)) = prefix

\* the header of a directive line that starts with prefix: the text between
\* the prefix and the first " %}"
Header(line, prefix) ==
    SubSeq(line, Len(prefix) + 1, FirstAt(CondClose, line) - 1)

\* the text of a closed directive line between its first " %}" and its
\* trailing closing tag
Between(line, closing) ==
    SubSeq(line, FirstAt(CondClose, line) + 3, Len(line) - Len(closing))

\* word is a name: not empty, without whitespace, comparison sign or marker
IsName(word) ==
    /\ word /= << >>
    /\ \A i \in DOMAIN word :
           word[i] \notin { " ", "\t", "\n", ">", "=", "<", "{", "}", "%" }

\* line is "{% for VAR in COLLECTION %} BODY {% endfor %}" with names VAR and
\* COLLECTION and a BODY without a directive in it
ForForm(line) ==
    /\ HasPrefix(line, ForPrefix)
    /\ HasSuffix(line, EndforTag)
    /\ FirstAt(CondClose, line) > Len(ForPrefix)
    /\ FirstAt(CondClose, line) + 3 <= Len(line) - Len(EndforTag)
    /\ LET words == SpaceTokens(Header(line, ForPrefix))
       IN  /\ Len(words) = 3
           /\ IsName(words[1])
           /\ words[2] = KwIn
           /\ IsName(words[3])
    /\ ~Occurs(TagOpen, Between(line, EndforTag))

\* C13: a line "{% for VAR in COLLECTION %} BODY {% endfor %}" is parsed to a
\* conditional with left operand VAR, operator In and right operand
\* COLLECTION, for every two names, names that contain "in" included
C13_ForHeaderParsed ==
    (pos > 0 /\ ForForm(Line)) =>
        LET words == SpaceTokens(Header(Line, ForPrefix))
        IN  /\ content.type = "Tag"
            /\ Cond.left_operand = words[1]
            /\ Cond.operation.op = "In"
            /\ Cond.right_operand = words[3]

\* C14: get_conditional_data is total: on every line it returns a conditional
\* or a format error, it never aborts; on a line that ends with a closing tag
\* and contains neither "{% if " nor "{% for " it returns a format error
C14_ConditionalDataTotal ==
    pos > 0 =>
        /\ get_conditional_data(Line).res \in { "Ok", "Err" }
        /\ (Closed(Line) /\ ~Occurs(IfPrefix, Line) /\ ~Occurs(ForPrefix, Line))
               => get_conditional_data(Line).res = "Err"

\* C15: a directive whose operator is Nosoported(message) renders exactly
\* message, for every context and every body, without a lookup and without an
\* error; the message the parser gives an operator token other than "=" and
\* "in" is "Unrecognized operator"
C15_UnsupportedRendersMessage ==
    LET message == << "U", "n", "r", "e", "c", "o", "g", "n", "i", "z", "e", "d",
                      " ", "o", "p", "e", "r", "a", "t", "o", "r" >>
    IN  /\ \A token \in { << ">" >>, << ">", "=" >>, << "<", "=" >>, << "<" >>,
                          << "~" >> } :
               get_operation_type(token) = Nosoported(message)
        /\ (TagEnded /\ Cond.operation.op = "Nosoported")
               => /\ Printed
                  /\ output[pos] = Cond.operation.msg
                  /\ Cond.operation.msg = message

\* a directive with operator ">" whose left operand and whose body placeholder
\* are both unbound has printed the message
C15_Witness ==
    /\ Printed
    /\ content.type = "Tag"
    /\ Cond.operation.op = "Nosoported"
    /\ Cond.left_operand \notin DOMAIN context
    /\ Body.type = "TemplateVariable"
    /\ \E n \in DOMAIN Body.data.var_map :
           PlaceholderName(Body.data.var_map[n]) \notin DOMAIN context
    /\ output[pos] = UnrecognizedOperator

\* C16: a line classified as Unrecognized is not an error: its arm prints
\* exactly "Unrecognized input" and hands control back to the loop, which
\* reads the lines that follow; every line whose arm has ended without an
\* abort has added exactly one text to the output
C16_UnrecognizedPrintsMarker ==
    LET marker == << "U", "n", "r", "e", "c", "o", "g", "n", "i", "z",
                     "e", "d", " ", "i", "n", "p", "u", "t" >>
    IN  /\ (ArmEnded /\ content.type = "Unrecognized")
               => (Printed /\ output[pos] = marker /\ pc \in { "read", "exit" })
        /\ \A n \in 1..(pos - 1) :
               get_content_type(stdin[n]) = Unrecognized => output[n] = marker
        /\ pc /= "abort" => Len(output) = (IF pc = "match" THEN pos - 1 ELSE pos)

\* the first line was Unrecognized and printed the marker, and the loop has
\* gone on: the second line has been printed too
C16_Witness ==
    /\ Printed
    /\ pos = 2
    /\ get_content_type(stdin[1]) = Unrecognized
    /\ output[1] = UnrecognizedInput
    /\ Len(output) = 2

\* the number of occurrences of word in text, counted from the left, none
\* overlapping the one before it
RECURSIVE CountOf(_, _)
CountOf(word, text) ==
    LET at == FirstAt(word, text)
    IN  IF at = 0 THEN 0
        ELSE 1 + CountOf(word, SubSeq(text, at + Len(word), Len(text)))

\* the four tests of the classifier
IsTag(text) ==
    CountOf(TagOpen, text) = CountOf(TagClose, text) /\ CountOf(TagOpen, text) > 0

IsVariable(text) ==
    CountOf(VarOpen, text) = CountOf(VarClose, text) /\ CountOf(VarOpen, text) > 0

IsFor(text) == (Occurs(KwFor, text) /\ Occurs(KwIn, text)) \/ Occurs(KwEndfor, text)

IsIf(text) == Occurs(KwIf, text) \/ Occurs(KwEndif, text)

\* content is what the directive parser gives for Line under the tag kind: the
\* Tag of that kind with the parsed conditional, or the abort of a failed parse
ParsedAs(kind) ==
    IF get_conditional_data(Line).res = "Ok"
    THEN content.type = "Tag" /\ content.tag = kind
    ELSE content.type = "Panic"

\* C17: the classifier takes the first of its checks that matches: a line with
\* is_tag and the for keywords goes to the directive parser as a ForTag, even
\* with "if" in it; otherwise one with is_tag and an if keyword goes to it as
\* an IfTag, even when is_variable holds; otherwise is_variable gives a
\* Variable; otherwise neither is_tag nor is_variable gives a Literal; and
\* Unrecognized results exactly when is_tag holds with no keyword and
\* is_variable is false
C17_FirstMatchWins ==
    pos > 0 =>
        /\ (IsTag(Line) /\ IsFor(Line)) => ParsedAs("ForTag")
        /\ (IsTag(Line) /\ ~IsFor(Line) /\ IsIf(Line)) => ParsedAs("IfTag")
        /\ (~(IsTag(Line) /\ (IsFor(Line) \/ IsIf(Line))) /\ IsVariable(Line))
               => content.type = "TemplateVariable"
        /\ (~IsTag(Line) /\ ~IsVariable(Line)) => content.type = "Literal"
        /\ content.type = "Unrecognized"
               <=> (IsTag(Line) /\ ~IsFor(Line) /\ ~IsIf(Line) /\ ~IsVariable(Line))

\* a line with balanced tag markers, the for keywords, the keyword if and a
\* balanced "{{ }}" pair has been classified as a ForTag
C17_Witness ==
    /\ pos > 0
    /\ IsTag(Line)
    /\ IsFor(Line)
    /\ IsIf(Line)
    /\ IsVariable(Line)
    /\ content.type = "Tag"
    /\ content.tag = "ForTag"

\* text has malformed tag markers (the counts of "{%" and "%}" differ), no
\* for/if keyword and no balanced "{{ }}" pair
MalformedTagMarkers(text) ==
    /\ CountOf(TagOpen, text) /= CountOf(TagClose, text)
    /\ ~IsFor(text)
    /\ ~IsIf(text)
    /\ ~IsVariable(text)

\* C18 as stated: a line with malformed tag markers, no for/if keyword and no
\* balanced "{{ }}" pair is classified as Unrecognized
C18_MalformedTagUnrecognized ==
    (pos > 0 /\ MalformedTagMarkers(Line)) => content.type = "Unrecognized"

\* C18: a line with malformed tag markers, no for/if keyword and no balanced
\* "{{ }}" pair is classified as Literal(line), the text unchanged: is_tag is
\* false when the counts differ
C18_MalformedTagLiteral ==
    (pos > 0 /\ MalformedTagMarkers(Line)) => content = Literal(Line)

\* a line with one "{%" and no "%}" has been classified as a Literal and
\* printed unchanged
C18_Witness ==
    /\ Printed
    /\ MalformedTagMarkers(Line)
    /\ CountOf(TagOpen, Line) = 1
    /\ CountOf(TagClose, Line) = 0
    /\ content.type = "Literal"
    /\ output[pos] = Line

\* the prefix a directive line starts with and the closing tag it ends with
PrefixOf(line) == IF HasPrefix(line, IfPrefix) THEN IfPrefix ELSE ForPrefix

ClosingOf(line) == IF HasSuffix(line, EndifTag) THEN EndifTag ELSE EndforTag

\* line is a complete directive: a header between "{% if " or "{% for " and
\* the first " %}", then a body, then a trailing closing tag
Complete(line) ==
    /\ HasPrefix(line, IfPrefix) \/ HasPrefix(line, ForPrefix)
    /\ Closed(line)
    /\ FirstAt(CondClose, line) > Len(PrefixOf(line))
    /\ FirstAt(CondClose, line) + 3 <= Len(line) - Len(ClosingOf(line))

\* the body of a complete directive line: the text between its first " %}"
\* and its trailing closing tag, trimmed
Inner(line) == str_trim(Between(line, ClosingOf(line)))

\* line is a complete directive whose body is itself a complete directive
\* with a plain text as its body
Nested(line) ==
    /\ Complete(line)
    /\ Complete(Inner(line))
    /\ ~Occurs(TagOpen, Inner(Inner(line)))

\* C19: a line whose body is itself a complete directive (if in if, for in
\* for, if in for, for in if) is parsed to a conditional whose condition is
\* that of the outer header and whose body is the inner directive, the text
\* between the first " %}" and the trailing closing tag classified in turn
C19_NestedDirectiveParsed ==
    (pos > 0 /\ Nested(Line)) =>
        /\ content.type = "Tag"
        /\ Ok(Cond) = get_conditional_expression(Header(Line, PrefixOf(Line)))
        /\ Body.type = "Tag"
        /\ Body = get_content_type(Inner(Line))

\* word contains none of the operators
OperatorFree(word) ==
    /\ IsName(word)
    /\ \A k \in DOMAIN operators : ~Occurs(operators[k], word)

\* line is a complete directive whose header is "L OP R": two words without
\* an operator in them around one operator of the list
HeaderForm(line) ==
    /\ Complete(line)
    /\ LET words == SpaceTokens(Header(line, PrefixOf(line)))
       IN  /\ Len(words) = 3
           /\ OperatorFree(words[1])
           /\ \E k \in DOMAIN operators : words[2] = operators[k]
           /\ OperatorFree(words[3])

\* C20: for every operator OP of the list and words L and R without an
\* operator in them, get_conditional_expression on "L OP R" returns left
\* operand L, right operand R and the operator Equal for "=", In for "in" and
\* Nosoported for ">", ">=", "<=" and "<"
C20_OperatorSplitsOperands ==
    (pos > 0 /\ HeaderForm(Line)) =>
        LET words == SpaceTokens(Header(Line, PrefixOf(Line)))
            parsed == get_conditional_expression(Header(Line, PrefixOf(Line)))
        IN  /\ parsed.res = "Ok"
            /\ parsed.val.left_operand = words[1]
            /\ parsed.val.right_operand = words[3]
            /\ parsed.val.operation.op =
                   (IF words[2] = << "=" >> THEN "Equal"
                    ELSE IF words[2] = KwIn THEN "In" ELSE "Nosoported")

\* the place in the list of the first operator, in list order, that occurs
\* in text; 0 when none occurs
FirstOperator(text) ==
    IF \E k \in DOMAIN operators : Occurs(operators[k], text)
    THEN CHOOSE k \in DOMAIN operators :
             /\ Occurs(operators[k], text)
             /\ \A j \in 1..(k - 1) : ~Occurs(operators[j], text)
    ELSE 0

\* the first operator of the list that occurs in text cuts it in two parts
SplitsInTwo(text) ==
    FirstOperator(text) /= 0 /\ CountOf(operators[FirstOperator(text)], text) = 1

\* C21: get_conditional_expression fails, with "Invalid format", exactly when
\* no operator of the list occurs in the condition text or the first operator
\* of the list, in list order, that occurs in it does not cut it in exactly
\* two parts, a later operator that would do so notwithstanding; in every
\* other case it succeeds
C21_InvalidFormatExactly ==
    (pos > 0 /\ Complete(Line)) =>
        LET text   == Header(Line, PrefixOf(Line))
            parsed == get_conditional_expression(text)
        IN  IF SplitsInTwo(text)
            THEN parsed.res = "Ok"
            ELSE parsed.res = "Err" /\ parsed.err = "Invalid format"

\* the condition "a > b > c = d" has failed: ">" comes first in the list and
\* cuts it in three, and "=", which would cut it in two, was not tried
C21_Witness ==
    /\ Aborted
    /\ Complete(Line)
    /\ LET text == Header(Line, PrefixOf(Line))
       IN  /\ FirstOperator(text) = 1
           /\ CountOf(operators[1], text) = 2
           /\ CountOf(operators[3], text) = 1
           /\ get_conditional_expression(text).res = "Err"

\* the whitespace-delimited tokens of text, in text order
RECURSIVE Words(_)
Words(text) ==
    IF text = << >> THEN << >>
    ELSE IF Blank(<< text[1] >>) THEN Words(Tail(text))
    ELSE LET stops == { i \in DOMAIN text : Blank(<< text[i] >>) }
             stop  == IF stops = {} THEN Len(text) + 1
                      ELSE CHOOSE i \in stops : \A j \in stops : i <= j
         IN  << SubSeq(text, 1, stop - 1) >> \o Words(SubSeq(text, stop, Len(text)))

\* word holds both "{{" and "}}"
HoldsPlaceholder(word) == Occurs(VarOpen, word) /\ Occurs(VarClose, word)

\* data is what the extractor gives for text: text as the source, its
\* placeholder tokens in text order, an empty rendered buffer
Extracted(data, text) ==
    /\ data.expression = text
    /\ data.var_map = SelectSeq(Words(text), HoldsPlaceholder)
    /\ \A n \in DOMAIN data.var_map : Occurs(data.var_map[n], data.expression)
    /\ data.gen_html = << >>

\* C22: the extractor returns as placeholders exactly the whitespace-delimited
\* tokens of the text that hold both "{{" and "}}", in text order with
\* duplicates kept; each is a substring of the stored source, the source is
\* the input text, and the rendered buffer is empty until generation
C22_PlaceholdersAreTokens ==
    (pos > 0 /\ pc = "match") =>
        /\ content.type = "TemplateVariable" => Extracted(content.data, Line)
        /\ (content.type = "Tag" /\ Body.type = "TemplateVariable")
               => Extracted(Body.data, Inner(Line))

\* a Variable with the same placeholder token twice has been classified and
\* not yet rendered: both tokens are kept
C22_Witness ==
    /\ pos > 0
    /\ pc = "match"
    /\ content.type = "TemplateVariable"
    /\ Len(content.data.var_map) = 2
    /\ content.data.var_map[1] = content.data.var_map[2]
    /\ content.data.expression = Line
    /\ content.data.gen_html = << >>

\* word holds a placeholder glued to punctuation: it starts or ends with a
\* punctuation character
Glued(word) ==
    /\ HoldsPlaceholder(word)
    /\ \/ word[1] \in { ",", ".", ";", ":", "!", "?" }
       \/ word[Len(word)] \in { ",", ".", ";", ":", "!", "?" }

\* C23: a placeholder glued to punctuation, as in "{{name}},", is not
\* detected: the token is not among the placeholders of the Variable, and the
\* rendered text keeps the token with its punctuation
C23_GluedNotDetected ==
    (pos > 0 /\ content.type = "TemplateVariable") =>
        \A n \in DOMAIN Words(Line) :
            Glued(Words(Line)[n]) =>
                /\ \A k \in DOMAIN content.data.var_map :
                       content.data.var_map[k] /= Words(Line)[n]
                /\ Printed => Occurs(Words(Line)[n], output[pos])

\* C24: the Equal branch compares the whitespace-delimited words of the right
\* operand with the bound sequence: a right operand whose words are separated
\* by several spaces or by tabs has no empty token, so "a  b" equals the
\* sequence "a", "b" and the body is rendered
C24_RightOperandWords ==
    (/\ TagEnded
     /\ Cond.operation.op = "Equal"
     /\ Cond.left_operand \in DOMAIN context
     /\ Words(Cond.right_operand) = context[Cond.left_operand]
     /\ Body.type = "Literal")
        => (Printed /\ output[pos] = Body.text)

\* text n times in a row
RECURSIVE Times(_, _)
Times(text, n) == IF n = 0 THEN << >> ELSE text \o Times(text, n - 1)

\* C25: an In directive over a bound sequence of n elements puts exactly one
\* newline after each of its n repetitions: a Literal body gives the body text
\* and a newline n times, whatever the elements; a Directive or Unrecognized
\* body gives no body text and no error; an empty sequence gives the empty
\* string
C25_NewlineAfterEachRepetition ==
    (/\ TagEnded
     /\ Cond.operation.op = "In"
     /\ Cond.right_operand \in DOMAIN context)
        => LET n == Len(context[Cond.right_operand])
           IN  /\ Body.type = "Literal"
                      => (Printed /\ output[pos] = Times(Body.text \o << "\n" >>, n))
               /\ Body.type \in { "Tag", "Unrecognized" }
                      => (Printed /\ output[pos] = Times(<< "\n" >>, n))
               /\ n = 0 => (Printed /\ output[pos] = << >>)
               /\ Printed => CountOf(<< "\n" >>, output[pos]) = n

\* an In directive with a Literal body over a sequence of two elements has
\* printed the body text twice, a newline after each
C25_Witness ==
    /\ Printed
    /\ content.type = "Tag"
    /\ Cond.operation.op = "In"
    /\ Cond.right_operand \in DOMAIN context
    /\ Len(context[Cond.right_operand]) = 2
    /\ Body.type = "Literal"
    /\ Body.text /= << >>
    /\ output[pos] = Body.text \o << "\n" >> \o Body.text \o << "\n" >>

\* names for the loop variable of a for header
LoopNames == { W_name, W_city, << "x" >>, << "y" >>, << "i", "t", "e", "m" >> }

\* conditional with name as its left operand
Renamed(conditional, name) ==
    [conditional EXCEPT !.condition.left_operand = name]

\* C26: the loop variable of a for header has no influence on the output: the
\* conditional of an In directive renders, under every other name for its left
\* operand, to the text the directive printed, and fails where it failed, for
\* every context and every body
C26_LoopVariableIgnored ==
    (TagEnded /\ Cond.operation.op = "In") =>
        \A name \in LoopNames :
            LET r == generate_html_tag(Renamed(content.data, name), context)
            IN  IF Printed THEN r.res = "Ok" /\ r.val = output[pos]
                ELSE r.res = "Panic"

\* "{% for x in name %} ..." with a Variable body has printed one line per
\* element of name, which the context binds to two elements, and x is not the
\* name of its placeholder's key
C26_Witness ==
    /\ Printed
    /\ content.type = "Tag"
    /\ Cond.operation.op = "In"
    /\ Cond.left_operand = << "x" >>
    /\ Cond.left_operand \notin DOMAIN context
    /\ Cond.right_operand \in DOMAIN context
    /\ Len(context[Cond.right_operand]) = 2
    /\ Body.type = "TemplateVariable"
    /\ output[pos] = generate_html_tag(Renamed(content.data, W_city), context).val

\* the longest chain of nested classifier calls that is followed
MaxCalls == 4

\* the inputs of the nested calls of get_content_type that classifying input
\* makes, the outermost first: a line that goes to the directive parser is
\* followed by the chain of its body; the chain is cut after fuel calls
RECURSIVE CallChain(_, _)
CallChain(input, fuel) ==
    << input >> \o
    (IF \/ fuel = 0
        \/ ~(IsTag(input) /\ (IsFor(input) \/ IsIf(input)))
        \/ ~conditional_body(input).call
     THEN << >>
     ELSE CallChain(conditional_body(input).text, fuel - 1))

\* the nesting levels of a conditional: itself and the directives in its body
RECURSIVE Levels(_)
Levels(conditional) ==
    1 + (IF conditional.expression.type = "Tag"
         THEN Levels(conditional.expression.data) ELSE 0)

\* C27: classification ends for every line: each nested call of
\* get_content_type is on a body strictly shorter than the text being parsed,
\* so there are no more calls than the line has characters (and the chain ends
\* before it is cut); the body of a parsed directive is the classified text of
\* the next call; rendering goes down once per nesting level, the text of an
\* Equal directive with a directive body being that of the body rendered once
C27_BodiesShrink ==
    pos > 0 =>
        LET calls == CallChain(Line, MaxCalls)
        IN  /\ \A i \in 1..(Len(calls) - 1) : Len(calls[i + 1]) < Len(calls[i])
            /\ Len(calls) <= MaxCalls
            /\ Len(calls) <= Len(Line) + 1
            /\ (pc = "match" /\ content.type = "Tag")
                   => /\ Len(calls) >= 2
                      /\ Body = get_content_type(calls[2])
                      /\ Levels(content.data) < Len(calls)
            /\ (/\ Printed
                /\ content.type = "Tag"
                /\ Cond.operation.op = "Equal"
                /\ EqualHolds(Cond, context)
                /\ Body.type = "Tag")
                   => output[pos] = generate_html_tag(Body.data, context).val

\* a directive inside a directive has been classified with three calls, each
\* on a shorter text, and rendered through both levels
C27_Witness ==
    /\ Printed
    /\ content.type = "Tag"
    /\ Body.type = "Tag"
    /\ Levels(content.data) = 2
    /\ Len(CallChain(Line, MaxCalls)) = 3
    /\ Cond.operation.op = "Equal"
    /\ EqualHolds(Cond, context)
    /\ output[pos] /= << >>

\* C28: every Variable the classifier returns, as a line or as the body of a
\* directive, has at least one placeholder, so an In directive with a Variable
\* body over a non-empty bound sequence finds a first placeholder and prints
\* its text; it does not abort
C28_VariableHasPlaceholder ==
    /\ (pos > 0 /\ content.type = "TemplateVariable")
           => content.data.var_map /= << >>
    /\ (pos > 0 /\ content.type = "Tag" /\ Body.type = "TemplateVariable")
           => Body.data.var_map /= << >>
    /\ (/\ TagEnded
        /\ Cond.operation.op = "In"
        /\ Cond.right_operand \in DOMAIN context
        /\ context[Cond.right_operand] /= << >>
        /\ Body.type = "TemplateVariable")
           => Printed

\* conditional with the tag variant of every directive nested in its body
\* exchanged
RECURSIVE FlipTags(_)
FlipTags(conditional) ==
    IF conditional.expression.type /= "Tag" THEN conditional
    ELSE [conditional EXCEPT
              !.expression = Tag(IF conditional.expression.tag = "IfTag"
                                 THEN "ForTag" ELSE "IfTag",
                                 FlipTags(conditional.expression.data))]

\* C29: the text of a directive depends on the operator of its condition and
\* not on its tag variant: an IfTag and a ForTag are rendered by the same
\* function of the conditional and the context, at the top level and nested,
\* so an if header with "in" repeats its body like a for and a ForTag with
\* "=" is an equality test
C29_TagVariantIrrelevant ==
    TagEnded =>
        LET r == generate_html_tag(content.data, context)
            f == generate_html_tag(FlipTags(content.data), context)
        IN  /\ IF Printed
               THEN r.res = "Ok" /\ r.val = output[pos] /\ f.res = "Ok" /\ f.val = r.val
               ELSE r.res = "Panic" /\ f.res = "Panic"
            /\ (/\ Cond.operation.op = "In"
                /\ Cond.right_operand \in DOMAIN context
                /\ Body.type = "Literal")
                   => output[pos] = Times(Body.text \o << "\n" >>,
                                          Len(context[Cond.right_operand]))
            /\ (/\ Cond.operation.op = "Equal"
                /\ Cond.left_operand \in DOMAIN context
                /\ Body.type = "Literal")
                   => output[pos] = (IF EqualHolds(Cond, context)
                                     THEN Body.text ELSE << >>)

\* a line classified as IfTag whose operator is "in" has printed its Literal
\* body once for each of the two elements bound to its right operand
C29_Witness ==
    /\ Printed
    /\ content.type = "Tag"
    /\ content.tag = "IfTag"
    /\ Cond.operation.op = "In"
    /\ Cond.right_operand \in DOMAIN context
    /\ Len(context[Cond.right_operand]) = 2
    /\ Body.type = "Literal"
    /\ output[pos] = Times(Body.text \o << "\n" >>, 2)

\* the body of the directive is a Variable with a placeholder whose name is
\* not a key of the context
BodyPlaceholderUnbound ==
    /\ Body.type = "TemplateVariable"
    /\ \E n \in DOMAIN Body.data.var_map :
           PlaceholderName(Body.data.var_map[n]) \notin DOMAIN context

\* C30: inside a directive only the lookup of the condition key is soft: when
\* the Equal comparison holds and the body is a Variable with a placeholder
\* whose name is not a key, rendering fails as a top-level Variable does, the
\* process stops and nothing is printed for the line; when the comparison
\* does not hold or the condition key is absent, the placeholders of the body
\* are not looked up: a blank text is printed and the body is left unrendered
C30_OnlyConditionKeySoft ==
    (TagEnded /\ Cond.operation.op = "Equal" /\ BodyPlaceholderUnbound) =>
        IF EqualHolds(Cond, context)
        THEN Aborted /\ Len(output) = pos - 1
        ELSE /\ Printed
             /\ Blank(output[pos])
             /\ Body.data.gen_html = << >>

\* an Equal directive whose comparison holds and whose Variable body names a
\* key the context does not have has stopped the process without printing
C30_Witness ==
    /\ Aborted
    /\ content.type = "Tag"
    /\ Cond.operation.op = "Equal"
    /\ EqualHolds(Cond, context)
    /\ BodyPlaceholderUnbound
    /\ Len(output) = pos - 1

=============================================================================
